---- MODULE Spec2Model ----
(***************************************************************************)
(* A model of the bencode decoder of src/Bdecode.py (class Bdecode).       *)
(*                                                                         *)
(* The decoder owns a byte buffer (self._data) and a cursor (self._index). *)
(* decode() is a recursive descent over the buffer.  The recursion is      *)
(* modelled with an explicit call stack, one frame per active method call, *)
(* and one action per step of a method: the dispatch of decode(), one      *)
(* iteration or the exit of each loop, the slice of _decodeStr.            *)
(*                                                                         *)
(* A byte is a one-character string; the token "x80" stands for a byte     *)
(* that is not ASCII and "None" for Python's None.  Python's sequences are *)
(* 0-based and TLA+'s 1-based: Python's data[index] is data[index + 1].    *)
(***************************************************************************)
EXTENDS Integers, Sequences, FiniteSets, TLC

VARIABLES
    data,    \* self._data: the buffer, never changed after construction
    index,   \* self._index: the cursor
    stack,   \* the active method calls, innermost last
    status,  \* of the top-level decode() call: idle, running, returned, raised
    result,  \* what the last top-level decode() returned
    exc,     \* the exception the last top-level decode() raised, or "none"
    calls,   \* history: how many top-level decode() calls were made
    start,   \* history: the cursor when the last top-level call began
    src      \* history: how the buffer was made (family, encoded value)

vars == <<data, index, stack, status, result, exc, calls, start, src>>

----------------------------------------------------------------------------
(* Bounds of the model. *)

MaxRawLen == 4     \* longest buffer of arbitrary bytes
MaxBodyLen == 3    \* longest integer body between 'i' and 'e'
MaxElems == 2      \* most elements of an encoded list, entries of a dictionary
MaxCalls == 2      \* most decode() calls on one Decoder

----------------------------------------------------------------------------
(* The constants of the source. *)

INT == "i"
LIST == "l"
DICT == "d"
STRING_SEP == ":"
THE_END == "e"
Digits == {"0", "1", "2", "3", "4", "5", "6", "7", "8", "9"}

----------------------------------------------------------------------------
(* Python values, tagged with their type.  Unset is the absence of a       *)
(* value: nothing was returned (yet).                                      *)

IntVal(n) == [kind |-> "int", val |-> n]
BytesVal(s) == [kind |-> "bytes", val |-> s]
ListVal(l) == [kind |-> "list", val |-> l]
DictVal(d) == [kind |-> "dict", val |-> d]
NoneVal == [kind |-> "None", val |-> <<>>]
Unset == [kind |-> "unset", val |-> <<>>]

----------------------------------------------------------------------------
(* int(str) of Python, base 10, on the bytes of the model: white space is  *)
(* stripped at both ends, one sign may lead, and the rest is digits with   *)
(* single underscores between digits.                                      *)

Whitespace == {" "}

RECURSIVE LStrip(_)
LStrip(s) ==
    IF Len(s) > 0 /\ Head(s) \in Whitespace THEN LStrip(Tail(s)) ELSE s

RECURSIVE RStrip(_)
RStrip(s) ==
    IF Len(s) > 0 /\ s[Len(s)] \in Whitespace
    THEN RStrip(SubSeq(s, 1, Len(s) - 1))
    ELSE s

Strip(s) == RStrip(LStrip(s))

Unsigned(s) ==
    IF Len(s) > 0 /\ Head(s) \in {"+", "-"} THEN Tail(s) ELSE s

DigitValue(b) ==
    CASE b = "0" -> 0 [] b = "1" -> 1 [] b = "2" -> 2 [] b = "3" -> 3
      [] b = "4" -> 4 [] b = "5" -> 5 [] b = "6" -> 6 [] b = "7" -> 7
      [] b = "8" -> 8 [] b = "9" -> 9

ValidDigits(s) ==
    /\ Len(s) > 0
    /\ \A k \in 1..Len(s) :
          \/ s[k] \in Digits
          \/ /\ s[k] = "_"
             /\ 1 < k
             /\ k < Len(s)
             /\ s[k - 1] \in Digits
             /\ s[k + 1] \in Digits

RECURSIVE Magnitude(_, _)
Magnitude(s, n) ==
    IF Len(s) = 0 THEN n
    ELSE IF Head(s) = "_" THEN Magnitude(Tail(s), n)
    ELSE Magnitude(Tail(s), 10 * n + DigitValue(Head(s)))

\* int(s) succeeds
IntParses(s) == ValidDigits(Unsigned(Strip(s)))

\* the value of int(s) when it succeeds
IntOf(s) ==
    LET t == Strip(s)
        m == Magnitude(Unsigned(t), 0)
    IN  IF Head(t) = "-" THEN 0 - m ELSE m

\* byte.decode('utf-8') of one byte succeeds
IsAscii(b) == b # "x80"

----------------------------------------------------------------------------
(* The call stack. *)

Frame(fn, pc) ==
    [fn |-> fn, pc |-> pc, byte |-> "None", acc |-> <<>>, length |-> 0,
     items |-> <<>>, key |-> Unset, at |-> -1]

Top == stack[Len(stack)]
Rest == SubSeq(stack, 1, Len(stack) - 1)
Running == status = "running" /\ Len(stack) > 0
TopIs(fn, pc) == Running /\ Top.fn = fn /\ Top.pc = pc
ReplaceTop(f) == Append(Rest, f)

\* _getNextByte: the byte it returns and the cursor it leaves
NextByte == IF index + 1 <= Len(data) THEN data[index + 1] ELSE "None"
NextIndex == IF index + 1 <= Len(data) THEN index + 1 ELSE index

\* an exception: no method of the class catches any, so the whole stack unwinds
Raise(e) ==
    /\ exc' = e
    /\ status' = "raised"
    /\ stack' = <<>>
    /\ result' = Unset

\* hash(key) succeeds: a list and an OrderedDict are unhashable
Hashable(key) == key.kind \in {"bytes", "int", "None"}

KeyEq(a, b) == a.kind = b.kind /\ a.val = b.val

HasKey(d, key) == \E k \in 1..Len(d) : KeyEq(d[k].key, key)

\* DictPut with a new key put first instead of last
DictPutFront(d, key, value) ==
    IF HasKey(d, key)
    THEN LET k == CHOOSE j \in 1..Len(d) : KeyEq(d[j].key, key)
         IN  [d EXCEPT ![k] = [key |-> d[k].key, value |-> value]]
    ELSE <<[key |-> key, value |-> value]>> \o d

\* d[key] = value on an OrderedDict: a new key goes last, a known key keeps
\* its place and takes the new value
DictPut(d, key, value) ==
    IF HasKey(d, key)
    THEN LET k == CHOOSE j \in 1..Len(d) : KeyEq(d[j].key, key)
         IN  [d EXCEPT ![k] = [key |-> d[k].key, value |-> value]]
    ELSE Append(d, [key |-> key, value |-> value])

\* return v from the innermost call: the value reaches the statement of the
\* caller that made the call
Return(v) ==
    IF Len(stack) = 1
    THEN /\ stack' = <<>>
         /\ status' = "returned"
         /\ result' = v
         /\ exc' = exc
    ELSE LET caller == Rest[Len(Rest)]
             below == SubSeq(Rest, 1, Len(Rest) - 1)
         IN  IF caller.fn = "list"
             THEN \* l.append(self.decode())
                  /\ stack' = Append(below,
                        [caller EXCEPT !.items = Append(@, v), !.pc = "test"])
                  /\ UNCHANGED <<status, result, exc>>
             ELSE IF caller.pc = "key"
             THEN \* key = self.decode()
                  /\ stack' = Append(below,
                        [caller EXCEPT !.key = v, !.pc = "value"])
                  /\ UNCHANGED <<status, result, exc>>
             ELSE \* value = self.decode(); d[key] = value
                  IF Hashable(caller.key)
                  THEN /\ stack' = Append(below,
                             [caller EXCEPT
                                !.items = DictPut(@, caller.key, v),
                                !.pc = "test"])
                       /\ UNCHANGED <<status, result, exc>>
                  ELSE Raise("TypeError")

----------------------------------------------------------------------------
(* The buffers a Decoder is constructed on.  Three families: every buffer   *)
(* of arbitrary bytes up to a length; 'i' body 'e' for every body over the  *)
(* bytes that matter to int(); and the bencoding of every value of a        *)
(* bounded set of trees, alone or followed by more bytes.                   *)

RawAlphabet == {"d", "e", "i", "l", ":", "1", "a"}
BodyAlphabet == {"1", "-", "+", " ", "_", "a", "x80"}

SeqsUpTo(S, n) == UNION {[1..m -> S] : m \in 0..n}

DigitChar(n) ==
    CASE n = 0 -> "0" [] n = 1 -> "1" [] n = 2 -> "2" [] n = 3 -> "3"
      [] n = 4 -> "4" [] n = 5 -> "5" [] n = 6 -> "6" [] n = 7 -> "7"
      [] n = 8 -> "8" [] n = 9 -> "9"

RECURSIVE Decimal(_)
Decimal(n) ==
    IF n < 10 THEN <<DigitChar(n)>>
    ELSE Append(Decimal(n \div 10), DigitChar(n % 10))

\* the bencoding of a value
RECURSIVE Encode(_)
RECURSIVE EncodeItems(_)
RECURSIVE EncodeEntries(_)
Encode(v) ==
    CASE v.kind = "int" ->
            <<INT>> \o (IF v.val < 0 THEN <<"-">> \o Decimal(0 - v.val)
                        ELSE Decimal(v.val)) \o <<THE_END>>
      [] v.kind = "bytes" -> Decimal(Len(v.val)) \o <<STRING_SEP>> \o v.val
      [] v.kind = "list" -> <<LIST>> \o EncodeItems(v.val) \o <<THE_END>>
      [] v.kind = "dict" -> <<DICT>> \o EncodeEntries(v.val) \o <<THE_END>>
EncodeItems(l) ==
    IF Len(l) = 0 THEN <<>> ELSE Encode(Head(l)) \o EncodeItems(Tail(l))
EncodeEntries(d) ==
    IF Len(d) = 0 THEN <<>>
    ELSE Encode(Head(d).key) \o Encode(Head(d).value) \o EncodeEntries(Tail(d))

Keys == {BytesVal(<<"a">>), BytesVal(<<"b">>)}
Atoms == {IntVal(-3), BytesVal(<<"a">>)}

\* the dictionaries with distinct keys, in every order of the keys
Entries(V) == {[key |-> k, value |-> v] : k \in Keys, v \in V}
DistinctKeys(d) ==
    \A j, k \in 1..Len(d) : j # k => d[j].key.val # d[k].key.val

ListsOf(V, n) == {ListVal(l) : l \in SeqsUpTo(V, n)}
DictsOf(V, n) ==
    {DictVal(d) : d \in {e \in SeqsUpTo(Entries(V), n) : DistinctKeys(e)}}

\* an element of a tree: an atom, or a list or dictionary of at most one atom
Elements == Atoms \cup ListsOf(Atoms, 1) \cup DictsOf(Atoms, 1)
Trees == Atoms \cup ListsOf(Elements, MaxElems) \cup DictsOf(Elements, MaxElems)
Trails == {<<>>, <<LIST, THE_END>>}

\* the literal inputs of the specification's examples
Spam == <<"s", "p", "a", "m">>
Eggs == <<"e", "g", "g", "s">>
ExampleBuffers ==
    {<<"5", ":", "a", "b">>,
     <<DICT, INT, "4", "2", THE_END>> \o <<"4", STRING_SEP>> \o Spam
        \o <<THE_END>>}
ExampleTrees ==
    {IntVal(42),
     BytesVal(Spam),
     ListVal(<<BytesVal(Spam), BytesVal(Eggs)>>),
     DictVal(<<[key |-> BytesVal(<<"c", "o", "w">>),
                value |-> BytesVal(<<"m", "o", "o">>)],
               [key |-> BytesVal(Spam), value |-> BytesVal(Eggs)]>>)}

RawSources ==
    {[family |-> "raw", buf |-> b, val |-> Unset, trail |-> <<>>] :
        b \in SeqsUpTo(RawAlphabet, MaxRawLen) \cup ExampleBuffers}
IntSources ==
    {[family |-> "int", buf |-> <<INT>> \o b \o <<THE_END>>, val |-> Unset,
      trail |-> <<>>] : b \in SeqsUpTo(BodyAlphabet, MaxBodyLen)}
TreeSources ==
    {[family |-> "tree", buf |-> Encode(v) \o t, val |-> v, trail |-> t] :
        v \in Trees \cup ExampleTrees, t \in Trails}

Sources == RawSources \cup IntSources \cup TreeSources

\* __init__: the cursor is 0 and the buffer is the content of the file
Init ==
    /\ src \in Sources
    /\ data = src.buf
    /\ index = 0
    /\ stack = <<>>
    /\ status = "idle"
    /\ result = Unset
    /\ exc = "none"
    /\ calls = 0
    /\ start = 0

----------------------------------------------------------------------------
(* The methods of Bdecode, one action per step. *)

\* a call whose result is returned as it is (return self._decodeInt()): the
\* callee's frame takes the place of the caller's
TailCall(f) ==
    /\ stack' = ReplaceTop(f)
    /\ UNCHANGED <<status, result, exc>>

\* a call from a loop: the caller waits at pc for the value
Call(pc) ==
    /\ stack' = Append(ReplaceTop([Top EXCEPT !.pc = pc, !.at = index]),
                       Frame("decode", "entry"))
    /\ UNCHANGED <<status, result, exc>>

\* the user calls decode() on the Decoder
CallDecode ==
    /\ status # "running"
    /\ calls < MaxCalls
    /\ stack' = <<Frame("decode", "entry")>>
    /\ status' = "running"
    /\ result' = Unset
    /\ exc' = "none"
    /\ calls' = calls + 1
    /\ start' = index
    /\ UNCHANGED <<data, index, src>>

\* decode(): read one byte and dispatch on it
Decode ==
    /\ TopIs("decode", "entry")
    /\ index' = NextIndex
    /\ LET byte == NextByte
       IN  IF byte = "None" THEN Raise("EOFError")
           ELSE IF byte = INT THEN TailCall(Frame("int", "begin"))
           ELSE IF byte = LIST THEN TailCall(Frame("list", "test"))
           ELSE IF byte = DICT THEN TailCall(Frame("dict", "test"))
           ELSE IF byte = THE_END THEN Return(NoneVal)
           ELSE IF byte \in Digits
           THEN TailCall([Frame("strlen", "loop") EXCEPT !.byte = byte])
           ELSE Raise("ValueError")
    /\ UNCHANGED <<data, calls, start, src>>

\* one iteration of a loop that gathers the bytes before a delimiter:
\* l += byte.decode('utf-8'); byte = self._getNextByte()
Gather ==
    IF Top.byte = "None"
    THEN Raise("AttributeError") /\ index' = index
    ELSE IF ~IsAscii(Top.byte)
    THEN Raise("UnicodeDecodeError") /\ index' = index
    ELSE /\ stack' = ReplaceTop([Top EXCEPT !.acc = Append(@, Top.byte),
                                             !.byte = NextByte,
                                             !.at = index])
         /\ index' = NextIndex
         /\ UNCHANGED <<status, result, exc>>

\* _getStrLength: an iteration of the loop
StrLenIter ==
    /\ TopIs("strlen", "loop")
    /\ Top.byte # STRING_SEP
    /\ Gather
    /\ UNCHANGED <<data, calls, start, src>>

\* _getStrLength: the loop ends, return int(l); decode() goes on to
\* _decodeStr(length)
StrLenExit ==
    /\ TopIs("strlen", "loop")
    /\ Top.byte = STRING_SEP
    /\ IF IntParses(Top.acc)
       THEN TailCall([Frame("str", "slice") EXCEPT !.length = IntOf(Top.acc)])
       ELSE Raise("ValueError")
    /\ UNCHANGED <<data, index, calls, start, src>>

\* data[lo:hi] of Python, for 0 <= lo
Slice(lo, hi) ==
    LET h == IF hi < Len(data) THEN hi ELSE Len(data)
    IN  IF lo < h THEN SubSeq(data, lo + 1, h) ELSE <<>>

\* _decodeStr
DecodeStr ==
    /\ TopIs("str", "slice")
    /\ index' = index + Top.length
    /\ Return(BytesVal(Slice(index, index + Top.length)))
    /\ UNCHANGED <<data, calls, start, src>>

\* _decodeInt: the first byte of the body
DecodeIntBegin ==
    /\ TopIs("int", "begin")
    /\ stack' = ReplaceTop([Top EXCEPT !.byte = NextByte, !.pc = "loop"])
    /\ index' = NextIndex
    /\ UNCHANGED <<data, status, result, exc, calls, start, src>>

\* _decodeInt: an iteration of the loop
DecodeIntIter ==
    /\ TopIs("int", "loop")
    /\ Top.byte # THE_END
    /\ Gather
    /\ UNCHANGED <<data, calls, start, src>>

\* _decodeInt: the loop ends, return int(i)
DecodeIntExit ==
    /\ TopIs("int", "loop")
    /\ Top.byte = THE_END
    /\ IF IntParses(Top.acc)
       THEN Return(IntVal(IntOf(Top.acc)))
       ELSE Raise("ValueError")
    /\ UNCHANGED <<data, index, calls, start, src>>

\* the byte at the cursor is the terminator
AtEnd == index < Len(data) /\ data[index + 1] = THE_END

\* _decodeList: the loop test reads data[index], which raises past the end of
\* data, and an iteration calls decode()
DecodeListIter ==
    /\ TopIs("list", "test")
    /\ ~AtEnd
    /\ IF index >= Len(data) THEN Raise("IndexError") ELSE Call("elem")
    /\ UNCHANGED <<data, index, calls, start, src>>

\* _decodeList: the loop ends, the terminator is consumed, return l
DecodeListExit ==
    /\ TopIs("list", "test")
    /\ AtEnd
    /\ index' = NextIndex
    /\ Return(ListVal(Top.items))
    /\ UNCHANGED <<data, calls, start, src>>

\* _decodeDict: the loop test compares the slice data[index: index + 1], which
\* is empty past the end of data, and an iteration begins: key = self.decode()
DecodeDictKey ==
    /\ TopIs("dict", "test")
    /\ ~AtEnd
    /\ Call("key")
    /\ UNCHANGED <<data, index, calls, start, src>>

\* _decodeDict: value = self.decode()
DecodeDictValue ==
    /\ TopIs("dict", "value")
    /\ stack' = Append(ReplaceTop([Top EXCEPT !.pc = "val"]),
                       Frame("decode", "entry"))
    /\ UNCHANGED <<data, index, status, result, exc, calls, start, src>>

\* _decodeDict: the loop ends, return d
DecodeDictExit ==
    /\ TopIs("dict", "test")
    /\ AtEnd
    /\ Return(DictVal(Top.items))
    /\ UNCHANGED <<data, index, calls, start, src>>

Next ==
    \/ CallDecode
    \/ Decode
    \/ StrLenIter
    \/ StrLenExit
    \/ DecodeStr
    \/ DecodeIntBegin
    \/ DecodeIntIter
    \/ DecodeIntExit
    \/ DecodeListIter
    \/ DecodeListExit
    \/ DecodeDictKey
    \/ DecodeDictValue
    \/ DecodeDictExit

Spec == Init /\ [][Next]_vars

\* every started step is eventually taken: the interpreter runs a call on
FairSpec == Spec /\ WF_vars(Next)

----------------------------------------------------------------------------
(* The properties. *)

\* the n-th top-level decode() call is over
Over(n) == calls = n /\ status \in {"returned", "raised"}
Returned(n) == calls = n /\ status = "returned"

\* the length of the encoded value a tree buffer begins with
TreeLen == Len(data) - Len(src.trail)

\* C1: the cursor stays within the buffer, 0 <= cursor <= len(buffer), in
\* every state during and after every decode() call.
CursorInBuffer == 0 <= index /\ index <= Len(data)

\* C2: a byte string whose length prefix declares more bytes than remain
\* after the ':' makes decode() fail with EOFError (UnexpectedEof); no
\* shorter byte string is returned.
TruncatedStringFails ==
    [][(TopIs("str", "slice") /\ index + Top.length > Len(data))
          => (status' = "raised" /\ exc' = "EOFError")]_vars

\* C3: the first decode() on a buffer that begins with the k bytes of one
\* well-formed value returns with the cursor at k, whatever follows, and the
\* next decode() starts there.
ExactConsumption ==
    src.family = "tree" =>
        /\ Returned(1) => index = TreeLen
        /\ calls = 2 => start = TreeLen

\* C4: decode() of the encoding of a tree of lists and dictionaries returns
\* that tree, with every element and every entry, also those after a nested
\* list or dictionary.
CompleteTrees ==
    (src.family = "tree" /\ Over(1)) =>
        (status = "returned" /\ result = src.val)

\* a dictionary whose values are integers and byte strings
IsFlatDict(v) ==
    /\ v.kind = "dict"
    /\ \A k \in 1..Len(v.val) : v.val[k].value.kind \in {"int", "bytes"}

\* C5: decode() of a flat dictionary with distinct byte-string keys returns
\* exactly the encoded entries in the order of the buffer, sorted or not.
DictOrderPreserved ==
    (src.family = "tree" /\ IsFlatDict(src.val) /\ Over(1)) =>
        (status = "returned" /\ result = src.val)

\* C5, witness: a dictionary encoded with key b before key a was returned
DictOrderWitness ==
    /\ src.family = "tree"
    /\ IsFlatDict(src.val)
    /\ Len(src.val.val) = 2
    /\ src.val.val[1].key.val = <<"b">>
    /\ src.val.val[2].key.val = <<"a">>
    /\ Returned(1)
    /\ Len(result.val) = 2
    /\ result.val[1].key.val = <<"b">>

RECURSIVE BytesKeysOnly(_)
BytesKeysOnly(v) ==
    CASE v.kind = "list" -> \A k \in 1..Len(v.val) : BytesKeysOnly(v.val[k])
      [] v.kind = "dict" ->
            \A k \in 1..Len(v.val) :
                /\ v.val[k].key.kind = "bytes"
                /\ BytesKeysOnly(v.val[k].value)
      [] OTHER -> TRUE

\* C6: a key that is not a byte string makes decode() fail; no returned
\* dictionary, at any depth, has a key that is not a byte string.
KeysAreByteStrings == status = "returned" => BytesKeysOnly(result)

RECURSIVE NoNone(_)
NoNone(v) ==
    CASE v.kind = "None" -> FALSE
      [] v.kind = "list" -> \A k \in 1..Len(v.val) : NoNone(v.val[k])
      [] v.kind = "dict" ->
            \A k \in 1..Len(v.val) :
                NoNone(v.val[k].key) /\ NoNone(v.val[k].value)
      [] OTHER -> TRUE

\* C7: a terminator where a value is required is an error; decode() never
\* returns None, as its result or inside the tree it returns.
NeverReturnsNone == status = "returned" => NoNone(result)

\* the body of a bencoded integer: one optional '-' and then digits only
StrictBody(b) ==
    LET u == IF Len(b) > 0 /\ Head(b) = "-" THEN Tail(b) ELSE b
    IN  Len(u) > 0 /\ \A k \in 1..Len(u) : u[k] \in Digits
StrictValue(b) ==
    IF Head(b) = "-" THEN 0 - Magnitude(Tail(b), 0) ELSE Magnitude(b, 0)
Body == SubSeq(data, 2, Len(data) - 1)

\* C8: decode() of 'i' body 'e' returns the integer exactly when the body is
\* an optional '-' and one or more digits, and fails with ValueError
\* (MalformedInteger) for every other body.
IntegerLiteralValidated ==
    (src.family = "int" /\ Over(1)) =>
        IF StrictBody(Body)
        THEN status = "returned" /\ result = IntVal(StrictValue(Body))
        ELSE status = "raised" /\ exc \in {"ValueError", "UnicodeDecodeError"}

\* a byte is required and the buffer is exhausted: decode() is about to read
\* its first byte, the integer loop got no byte, the list loop is at its test
ByteMissing ==
    /\ index >= Len(data)
    /\ \/ TopIs("decode", "entry")
       \/ TopIs("int", "loop") /\ Top.byte = "None"
       \/ TopIs("list", "test")

\* C9: running out of bytes where one is required fails with EOFError
\* (UnexpectedEof) in every place: the empty buffer, an integer, a list and a
\* dictionary without their terminator.
EofIsOneKind ==
    [][(ByteMissing /\ status' = "raised") => exc' = "EOFError"]_vars

\* the innermost call is at the head of its loop after an iteration that
\* began with the cursor at Top.at
AtLoopHead ==
    /\ Running
    /\ Top.pc \in {"loop", "test"}
    /\ Top.at >= 0

\* C10: a loop that runs again does so with the cursor moved on: every
\* iteration advances the cursor or ends the call.
LoopsAdvance == AtLoopHead => index > Top.at

\* C10, the part that holds: every decode() call ends
Terminates == (status = "running") ~> (status # "running")

====
